---- MODULE Spec2Model ----
(***************************************************************************)
(* The research agent graph of src/agent/tool_agent.py: a LangGraph        *)
(* StateGraph over PlanningState with the two nodes "research_agent" and   *)
(* "tools", the edge START -> research_agent, the conditional edge         *)
(* tools_condition after research_agent, and the edge tools ->             *)
(* research_agent.  The graph runtime (channels and their reducers, the    *)
(* prebuilt ToolNode and tools_condition) is modelled by its documented    *)
(* behaviour at the places the source uses it.                             *)
(***************************************************************************)
EXTENDS Naturals, Sequences, FiniteSets, TLC

VARIABLES
    pc,          \* the node about to run: "research_agent", "tools", "__end__", "returned", "raised"
    state,       \* the graph's channels (PlanningState plus the output schema's `result`)
    outputs,     \* inside the tools node: one slot per tool call of the turn
    lastDone,    \* inside the tools node: index of the tool call that completed last
    returned,    \* the value research_agent_workflow.invoke returns
    seed,        \* history: the channels right after the input was written
    nReasoning,  \* history: executions of the research_agent node
    nDispatch,   \* history: executions of the tools node
    llmKinds,    \* history: per LLM call of research_agent, "tools" or "final"
    invoked,     \* history: the calls made to the external capabilities
    toolReturns  \* history: per tool call of the turn, what the tool function returned

vars == <<pc, state, outputs, lastDone, returned, seed, nReasoning, nDispatch, llmKinds,
          invoked, toolReturns>>

\* Largest number of tool calls the LLM puts into one assistant message.
MaxCalls == 3

-----------------------------------------------------------------------------
\* Messages (langchain_core messages as add_messages stores them).

Unset == "__unset__"

HumanMessage(c) ==
    [type |-> "human", content |-> c, tool_calls |-> <<>>, name |-> "",
     tool_call_id |-> 0, status |-> "", id |-> 0]

AIMessage(c, calls) ==
    [type |-> "ai", content |-> c, tool_calls |-> calls, name |-> "",
     tool_call_id |-> 0, status |-> "", id |-> 0]

ToolMessage(c, n, cid, s) ==
    [type |-> "tool", content |-> c, tool_calls |-> <<>>, name |-> n,
     tool_call_id |-> cid, status |-> s, id |-> 0]

\* A bare string given where a message is expected.
Str(c) ==
    [type |-> "str", content |-> c, tool_calls |-> <<>>, name |-> "",
     tool_call_id |-> 0, status |-> "", id |-> 0]

\* Slot of a tool call whose invocation has not completed yet.
Pending == ToolMessage("", "", 0, "pending")

\* The raised exception of a tool call when the tools node does not handle it.
Raised(n, cid) == ToolMessage("", n, cid, "raised")

-----------------------------------------------------------------------------
\* The tools bound to the LLM and the requests the LLM can make.

TOOLS == <<"search_web", "search_wikipedia", "python_repl">>

ToolNames == {TOOLS[i] : i \in 1..Len(TOOLS)}

\* The LLM may also name a tool that is not registered.
RequestableNames == ToolNames \cup {"unknown_tool"}

Question == "what is latest version of python"

\* The arguments the LLM supplies: for the search tools their `state` parameter
\* (its messages), for python_repl the command.
ArgsFor(n) ==
    [messages |-> IF n = "python_repl" THEN <<>> ELSE <<Question>>,
     command  |-> IF n = "python_repl" THEN "print(1)" ELSE ""]

ToolCall(n, i) == [name |-> n, id |-> i, args |-> ArgsFor(n)]

Injective(f) == \A i, j \in DOMAIN f : f[i] = f[j] => i = j

\* The tool calls of one assistant message: up to MaxCalls requests, each
\* tool requested at most once in a turn, in any order.
ToolCallLists ==
    UNION {{[i \in 1..k |-> ToolCall(f[i], i)] :
               f \in {g \in [1..k -> RequestableNames] : Injective(g)}} :
              k \in 1..MaxCalls}

-----------------------------------------------------------------------------
\* Channels of the graph and their reducers.

IsPrefix(s, t) == Len(s) <= Len(t) /\ SubSeq(t, 1, Len(s)) = s

\* An input given as a bare string becomes a human message.
Coerce(m) == IF m.type = "str" THEN HumanMessage(m.content) ELSE m

IndexOfId(left, i) ==
    IF \E j \in 1..Len(left) : left[j].id = i
    THEN CHOOSE j \in 1..Len(left) : left[j].id = i
    ELSE 0

\* The channel without its reducer: the update replaces the list.
add_messages_Overwrite(left, right) == right

\* add_messages: every message without an id gets a fresh one; a message whose
\* id is already in the list replaces that entry in place, any other message
\* is appended.
RECURSIVE add_messages(_, _)
add_messages(left, right) ==
    IF right = <<>> THEN left
    ELSE LET m0 == Coerce(Head(right))
             m  == IF m0.id = 0 THEN [m0 EXCEPT !.id = Len(left) + 1] ELSE m0
             j  == IndexOfId(left, m.id)
         IN  add_messages(IF j = 0 THEN Append(left, m) ELSE [left EXCEPT ![j] = m],
                          Tail(right))

\* operator.add on lists.
operator_add(left, right) == left \o right

Reducer(k, old, new) ==
    CASE k = "messages"     -> add_messages(old, new)
      [] k = "project_plan" -> operator_add(old, new)
      [] OTHER              -> new

\* The channels before the input is written.
EmptyChannels ==
    [project_description |-> Unset, messages |-> <<>>, project_research |-> Unset,
     project_plan |-> <<>>, final_report |-> Unset, result |-> <<>>]

\* Channels that last one step only: what a step does not write is emptied.
ApplyWrites_Ephemeral(st, w) ==
    [k \in DOMAIN st |->
        IF k \in DOMAIN w THEN Reducer(k, st[k], w[k])
        ELSE IF k \in {"messages", "result"} THEN st[k]
        ELSE EmptyChannels[k]]

\* Applying a node's (or the input's) partial update to the channels.
ApplyWrites(st, w) ==
    [k \in DOMAIN st |-> IF k \in DOMAIN w THEN Reducer(k, st[k], w[k]) ELSE st[k]]

\* The keys of the output schema ResearchState.
OutputKeys == {"result"}

-----------------------------------------------------------------------------
\* The external capabilities: what the structured LLM call, the web search
\* provider, the Wikipedia loader and the Python shell can answer.

SearchQuery(q) == [query |-> q]

InnerQuery == "latest python version"

Doc(u, c) == [url |-> u, content |-> c]

RankedDocs ==
    <<Doc("https://example", "Python 3.13"),
      Doc("https://python.org", "Python 3.13.0 released"),
      Doc("https://docs", "What is new in 3.13")>>

\* TavilySearch(max_results=3)
max_results == 3

\* WikipediaLoader(load_max_docs=2)
load_max_docs == 2

ProviderResults(maxDocs) == {SubSeq(RankedDocs, 1, k) : k \in 0..maxDocs}

Env(q, failed, docs, out) == [query |-> q, failed |-> failed, docs |-> docs, stdout |-> out]

\* The environments one invocation of the named tool can meet.
Envs(n) ==
    CASE n = "search_web" ->
           {Env(InnerQuery, TRUE, <<>>, "")}
           \cup {Env(InnerQuery, FALSE, r, "") : r \in ProviderResults(max_results)}
      [] n = "search_wikipedia" ->
           {Env(InnerQuery, FALSE, r, "") : r \in ProviderResults(load_max_docs)}
      [] n = "python_repl" ->
           {Env("", FALSE, <<>>, "1\n"), Env("", TRUE, <<>>, "NameError('x')")}
      [] OTHER -> {Env("", FALSE, <<>>, "")}

-----------------------------------------------------------------------------
\* The tools.

Ok(kind, v) == [raised |-> FALSE, exc |-> "", kind |-> kind, value |-> v]

Raise(e) == [raised |-> TRUE, exc |-> e, kind |-> "", value |-> <<>>]

\* A tool call whose tool function has not returned (or was never entered).
NoReturn == [raised |-> FALSE, exc |-> "", kind |-> "none", value |-> <<>>]

HasAttr(obj, a) == a \in DOMAIN obj

\* The tool's `state` argument is a dict: it takes no attribute assignment.
SetAttrAllowed(obj) == FALSE

FormatWeb(doc) ==
    "<Document href='" \o doc.url \o "'messages/>\n" \o doc.content \o "\n<Document>"

FormatWikipedia(doc) ==
    "<Document href='" \o doc.url \o "'/>\n" \o doc.content \o "\n<Document>"

\* search_web returning the new blocks alone.
search_web_OnlyBlocks(st, env) ==
    IF env.failed THEN Raise("ProviderError()")
    ELSE Ok("dict", [i \in 1..Len(env.docs) |-> FormatWeb(env.docs[i])])

\* search_web: a structured LLM call for the query, the provider's documents
\* formatted, the argument's messages followed by the blocks returned.
search_web(st, env) ==
    LET search_query == SearchQuery(env.query)
        search_docs == env.docs
        formatted_search_docs ==
            [i \in 1..Len(search_docs) |-> FormatWeb(search_docs[i])]
    IN  IF env.failed THEN Raise("ProviderError()")
        ELSE Ok("dict", st.messages \o formatted_search_docs)

\* search_wikipedia: reads search_query.search_query, which SearchQuery does
\* not have; past that, assigns state.project_plan on a dict.
search_wikipedia(st, env) ==
    LET search_query == SearchQuery(env.query)
        search_docs == env.docs
        formatted_search_docs ==
            [i \in 1..Len(search_docs) |-> FormatWikipedia(search_docs[i])]
    IN  IF ~HasAttr(search_query, "search_query")
        THEN Raise("AttributeError('SearchQuery' object has no attribute 'search_query')")
        ELSE IF ~SetAttrAllowed(st)
        THEN Raise("AttributeError('dict' object has no attribute 'project_plan')")
        ELSE Ok("dict", st.messages \o formatted_search_docs)

\* PythonREPL.run: the captured output, or the repr of the exception, as a string.
python_repl(command, env) == Ok("str", <<env.stdout>>)

\* One call of an external capability: which one, made by which node or tool
\* (and for which tool call or reasoning step), with which query, and whether
\* it failed or else how many results it returned.
Invocation(cap, by, n, q, failed, results) ==
    [capability |-> cap, by |-> by, n |-> n, query |-> q,
     failed |-> failed, results |-> results]

\* The external calls one tool invocation makes: both search tools ask the
\* LLM for a SearchQuery first; search_web then queries the provider with it;
\* search_wikipedia raises before it reaches the loader; python_repl runs the
\* command of the request.
CapabilityCalls(call, env) ==
    CASE call.name = "search_web" ->
           {Invocation("llm", call.name, call.id, "", FALSE, 1),
            Invocation("search", call.name, call.id, SearchQuery(env.query).query,
                       env.failed, Len(env.docs))}
      [] call.name = "search_wikipedia" ->
           {Invocation("llm", call.name, call.id, "", FALSE, 1)}
           \cup (IF HasAttr(SearchQuery(env.query), "search_query")
                 THEN {Invocation("encyclopedia", call.name, call.id, env.query,
                                  env.failed, Len(env.docs))}
                 ELSE {})
      [] call.name = "python_repl" ->
           {Invocation("python", call.name, call.id, call.args.command, env.failed, 1)}
      [] OTHER -> {}

InvokeTool(call, env) ==
    CASE call.name = "search_web"       -> search_web(call.args, env)
      [] call.name = "search_wikipedia" -> search_wikipedia(call.args, env)
      [] call.name = "python_repl"      -> python_repl(call.args.command, env)

-----------------------------------------------------------------------------
\* The prebuilt tools node and the prebuilt routing condition.

RECURSIVE JoinQuoted(_)
JoinQuoted(v) ==
    IF v = <<>> THEN ""
    ELSE IF Len(v) = 1 THEN "\"" \o v[1] \o "\""
    ELSE "\"" \o v[1] \o "\", " \o JoinQuoted(Tail(v))

\* A tool's return value as the content of its tool message: a string as it
\* is, the returned dict as JSON text.
Stringify(r) ==
    IF r.kind = "str" THEN r.value[1]
    ELSE "{\"messages\": [" \o JoinQuoted(r.value) \o "]}"

\* ToolNode(TOOLS, handle_tool_errors=False): the exception propagates.
HandleToolError_Reraise(call, r) == Raised(call.name, call.id)

\* ToolNode(TOOLS) handles a tool's exception: it becomes the message content.
HandleToolError(call, r) ==
    ToolMessage("Error: " \o r.exc \o "\n Please fix your mistakes.",
                call.name, call.id, "error")

\* The tools node looking the requested name up without a check.
RunOne_UnknownRaises(call, env) ==
    IF call.name \notin ToolNames
    THEN Raised(call.name, call.id)
    ELSE LET r == InvokeTool(call, env)
         IN  IF r.raised THEN HandleToolError(call, r)
             ELSE ToolMessage(Stringify(r), call.name, call.id, "success")

\* One tool call of the turn.
RunOne(call, env) ==
    IF call.name \notin ToolNames
    THEN ToolMessage("Error: " \o call.name
                       \o " is not a valid tool, try one of [search_web, search_wikipedia, python_repl].",
                     call.name, call.id, "error")
    ELSE LET r == InvokeTool(call, env)
         IN  IF r.raised THEN HandleToolError(call, r)
             ELSE ToolMessage(Stringify(r), call.name, call.id, "success")

\* The results collected as they complete.
SlotByCompletion(i, outs) ==
    CHOOSE j \in DOMAIN outs :
        outs[j] = Pending /\ \A k \in 1..(j - 1) : outs[k] # Pending

\* The tools node collects the results in the order of the requests: call i's
\* result goes to slot i, whenever it completes.
Slot(i, outs) == i

LastMessage(st) == st.messages[Len(st.messages)]

\* tools_condition reads the last entry of the `messages` channel.
tools_condition(st) ==
    LET ai_message == LastMessage(st)
    IN  IF ai_message.type = "ai" /\ Len(ai_message.tool_calls) > 0
        THEN "tools" ELSE "__end__"

-----------------------------------------------------------------------------
\* The research_agent node.

FinalTexts == {"Python 3.13", ""}

\* What llm_with_tools.invoke can answer: a text, a request for one tool, or a
\* request for every bound tool.
LLMResponses ==
    {AIMessage(t, <<>>) : t \in FinalTexts}
    \cup {AIMessage("", <<ToolCall(n, 1)>>) : n \in RequestableNames}
    \cup {AIMessage("", [i \in 1..Len(TOOLS) |-> ToolCall(TOOLS[i], i)])}

Kind(r) == IF Len(r.tool_calls) > 0 THEN "tools" ELSE "final"

\* The node returning the LLM's answer as a message of the conversation.
research_agent_AppendsMessage(st, llmResult) == [messages |-> <<llmResult>>]

\* The node also filing the answer as the report.
research_agent_WritesReport(st, llmResult) ==
    [result |-> <<llmResult>>, final_report |-> llmResult.content]

\* research_agent: the update the node returns for the LLM's answer.
research_agent(st, llmResult) == [result |-> <<llmResult>>]

-----------------------------------------------------------------------------
\* The run.

PlanInputs ==
    {[project_description |-> "a planning tool", project_research |-> "notes",
      project_plan |-> <<"step 1">>, final_report |-> "draft"]}

\* The seed conversations: the question alone (the module's own call), or a
\* conversation handed over with the assistant's last turn in it, a text or
\* tool calls not yet dispatched (add_messages takes message objects as well
\* as strings).
SeedMessages ==
    {<<Str(Question)>>}
    \cup {<<Str(Question), AIMessage(t, <<>>)>> : t \in {"Shall I search?"}}
    \cup {<<Str(Question), AIMessage("", calls)>> : calls \in ToolCallLists}

\* The inputs of research_agent_workflow.invoke: the messages alone, or the
\* messages with the planning fields of the surrounding stages.
Inputs ==
    {[messages |-> m] : m \in SeedMessages}
    \cup {[messages |-> m, project_description |-> x.project_description,
           project_research |-> x.project_research, project_plan |-> x.project_plan,
           final_report |-> x.final_report] : m \in SeedMessages, x \in PlanInputs}

Init ==
    /\ \E input \in Inputs : state = ApplyWrites(EmptyChannels, input)
    /\ seed = state
    /\ pc = "research_agent"
    /\ outputs = <<>>
    /\ lastDone = 0
    /\ returned = <<>>
    /\ nReasoning = 0
    /\ nDispatch = 0
    /\ llmKinds = <<>>
    /\ invoked = {}
    /\ toolReturns = <<>>

\* The research_agent node and the conditional edge after it.
ResearchAgent ==
    /\ pc = "research_agent"
    /\ \E llmResult \in LLMResponses :
          /\ state' = ApplyWrites(state, research_agent(state, llmResult))
          /\ llmKinds' = Append(llmKinds, Kind(llmResult))
    /\ pc' = tools_condition(state')
    /\ nReasoning' = nReasoning + 1
    /\ invoked' = invoked \cup {Invocation("llm", "research_agent", nReasoning + 1, "", FALSE, 1)}
    /\ UNCHANGED <<outputs, lastDone, returned, seed, nDispatch, toolReturns>>

\* The tools node starts: one invocation per tool call of the last message.
ToolsStart ==
    /\ pc = "tools"
    /\ outputs = <<>>
    /\ outputs' = [i \in 1..Len(LastMessage(state).tool_calls) |-> Pending]
    /\ lastDone' = 0
    /\ nDispatch' = nDispatch + 1
    /\ toolReturns' = [i \in 1..Len(LastMessage(state).tool_calls) |-> NoReturn]
    /\ UNCHANGED <<pc, state, returned, seed, nReasoning, llmKinds, invoked>>

Done == {i \in DOMAIN outputs : \E j \in DOMAIN outputs : outputs[j].tool_call_id = i}

\* One of the turn's invocations completes, in any order.
ToolRun ==
    /\ pc = "tools"
    /\ \E i \in DOMAIN outputs \ Done :
          \E env \in Envs(LastMessage(state).tool_calls[i].name) :
              /\ outputs' = [outputs EXCEPT ![Slot(i, outputs)] =
                                RunOne(LastMessage(state).tool_calls[i], env)]
              /\ lastDone' = i
              /\ invoked' = invoked
                              \cup CapabilityCalls(LastMessage(state).tool_calls[i], env)
              /\ toolReturns' =
                    [toolReturns EXCEPT ![i] =
                        IF LastMessage(state).tool_calls[i].name \in ToolNames
                        THEN InvokeTool(LastMessage(state).tool_calls[i], env)
                        ELSE NoReturn]
    /\ UNCHANGED <<pc, state, returned, seed, nReasoning, nDispatch, llmKinds>>

\* The node writing its update as soon as one invocation has completed.
ToolsJoin_Early ==
    /\ pc = "tools"
    /\ outputs # <<>>
    /\ Done # {}
    /\ pc' = "research_agent"
    /\ state' = ApplyWrites(state,
                    [messages |-> SelectSeq(outputs, LAMBDA m : m # Pending)])
    /\ outputs' = <<>>
    /\ UNCHANGED <<lastDone, returned, seed, nReasoning, nDispatch, llmKinds, invoked, toolReturns>>

\* The graph with the edge tools -> END in place of tools -> research_agent.
ToolsJoin_ToEnd ==
    /\ pc = "tools"
    /\ outputs # <<>>
    /\ Done = DOMAIN outputs
    /\ pc' = "__end__"
    /\ state' = ApplyWrites(state, [messages |-> outputs])
    /\ outputs' = <<>>
    /\ UNCHANGED <<lastDone, returned, seed, nReasoning, nDispatch, llmKinds, invoked, toolReturns>>

\* All invocations completed: the node's update is written and the edge
\* tools -> research_agent is taken; an unhandled exception ends the run.
ToolsJoin ==
    /\ pc = "tools"
    /\ outputs # <<>>
    /\ Done = DOMAIN outputs
    /\ IF \E i \in DOMAIN outputs : outputs[i].status = "raised"
       THEN pc' = "raised" /\ state' = state
       ELSE pc' = "research_agent" /\ state' = ApplyWrites(state, [messages |-> outputs])
    /\ outputs' = <<>>
    /\ UNCHANGED <<lastDone, returned, seed, nReasoning, nDispatch, llmKinds, invoked, toolReturns>>

\* The run ends: invoke returns the channels of the output schema.
Return ==
    /\ pc = "__end__"
    /\ returned' = [k \in OutputKeys |-> state[k]]
    /\ pc' = "returned"
    /\ UNCHANGED <<state, outputs, lastDone, seed, nReasoning, nDispatch, llmKinds, invoked, toolReturns>>

\* A run takes at most three steps of the graph (research_agent, tools,
\* research_agent), below the runtime's default recursion limit of 25.
Next == ResearchAgent \/ ToolsStart \/ ToolRun \/ ToolsJoin \/ Return

Spec == Init /\ [][Next]_vars

-----------------------------------------------------------------------------
\* Vocabulary of the properties.

\* The loop state the run is in, in the words of the design.
Terminal ==
    CASE pc \in {"__end__", "returned"} -> "DONE"
      [] pc = "raised"                   -> "RAISED"
      [] OTHER                           -> "RUNNING"

\* The output of the latest reasoning step.
LatestOutput == state.result[1]

\* Index in `messages` of the latest assistant message that requests tools (0: none).
RequestIndex ==
    LET js == {j \in 1..Len(state.messages) :
                  state.messages[j].type = "ai" /\ Len(state.messages[j].tool_calls) > 0}
    IN  IF js = {} THEN 0 ELSE CHOOSE j \in js : \A k \in js : k <= j

Requests == state.messages[RequestIndex].tool_calls

\* The tools node has run and written its update.
TurnDispatched == nDispatch > 0 /\ pc # "tools" /\ pc # "raised"

\* The tool message of request i of the dispatched turn.
ResultOf(i) == state.messages[RequestIndex + i]

OneUserMessage == Len(seed.messages) = 1 /\ seed.messages[1].type = "human"

AllCallsRequestedTools ==
    llmKinds # <<>> /\ \A i \in 1..Len(llmKinds) : llmKinds[i] = "tools"

-----------------------------------------------------------------------------
\* C1: after every reasoning step the loop goes to the tools node if and only
\* if that step's output is a non-empty list of tool requests, and ends if and
\* only if the output is a final answer.
C1_RoutingFollowsOutput ==
    (nReasoning > 0 /\ pc \in {"tools", "__end__"}) =>
        /\ (pc = "tools") <=> (Kind(LatestOutput) = "tools")
        /\ (pc = "__end__") <=> (Kind(LatestOutput) = "final")

\* C2: when the first LLM call returns a final answer, the run is done after
\* exactly one reasoning step and no dispatch step.
C2_FinalAnswerFirst ==
    (llmKinds # <<>> /\ llmKinds[1] = "final") =>
        /\ nDispatch = 0
        /\ pc \in {"__end__", "returned"}
        /\ nReasoning = 1

\* C3: when every LLM call returns tool requests, the run ends in the distinct
\* terminal state MAX_ITERATIONS_EXCEEDED, never in DONE.
C3_MaxIterationsExceeded ==
    (AllCallsRequestedTools /\ Terminal # "RUNNING") =>
        Terminal = "MAX_ITERATIONS_EXCEEDED"

\* C4: seeded with one user message and a first LLM call that requests a tool,
\* the run returns with messages two longer than the seed, the final answer's
\* text, and the final messages and project plan in the result.
C4_ScenarioResult ==
    (pc = "returned" /\ OneUserMessage /\ llmKinds[1] = "tools") =>
        /\ Len(state.messages) = Len(seed.messages) + 2
        /\ Len(llmKinds) = 2
        /\ Kind(returned.result[1]) = "final"
        /\ {"messages", "project_plan"} \subseteq DOMAIN returned

\* C5: across every step, the earlier messages are a prefix of the later ones.
C5_MessagesAppendOnly ==
    [][IsPrefix(state.messages, state'.messages)]_vars

C5_Witness ==
    /\ TurnDispatched
    /\ nReasoning = 2
    /\ Len(state.messages) > Len(seed.messages)

\* C6: a failing tool invocation becomes the content of a tool message in
\* messages and the loop goes on to the next reasoning step; the run never
\* ends in an exception, and as long as it has not returned it can proceed.
C6_ToolFailureBecomesDocument ==
    /\ pc # "raised"
    /\ \A i \in DOMAIN outputs : outputs[i].status \in {"pending", "success", "error"}
    /\ pc # "returned" => ENABLED Next
    /\ TurnDispatched =>
          /\ pc = "research_agent" \/ nReasoning >= 2
          /\ \A i \in 1..Len(Requests) :
                /\ RequestIndex + i <= Len(state.messages)
                /\ ResultOf(i).type = "tool"
                /\ ResultOf(i).status \in {"success", "error"}
                /\ ResultOf(i).status = "error" => ResultOf(i).content # ""

C6_Witness ==
    /\ pc = "returned"
    /\ nDispatch = 1
    /\ DOMAIN returned = OutputKeys
    /\ \E i, j \in 1..Len(Requests) :
          /\ Requests[i].name = "search_wikipedia" /\ ResultOf(i).status = "error"
          /\ Requests[j].name = "search_web" /\ ResultOf(j).status = "error"

\* C7: a request naming a tool that is not registered yields a diagnostic tool
\* message in messages, raises nothing, and the next reasoning step follows.
C7_UnknownToolDiagnostic ==
    /\ \A i \in DOMAIN outputs :
          (pc = "tools" /\ LastMessage(state).tool_calls[i].name \notin ToolNames) =>
              outputs[i].status \in {"pending", "error"}
    /\ TurnDispatched =>
          \A i \in 1..Len(Requests) :
              Requests[i].name \notin ToolNames =>
                  /\ ResultOf(i).type = "tool"
                  /\ ResultOf(i).status = "error"
                  /\ ResultOf(i).tool_call_id = Requests[i].id
                  /\ ResultOf(i).content =
                        "Error: " \o Requests[i].name
                        \o " is not a valid tool, try one of [search_web, search_wikipedia, python_repl]."
                  /\ pc = "research_agent" \/ nReasoning >= 2

C7_Witness ==
    /\ TurnDispatched
    /\ nReasoning = 2
    /\ \E i \in 1..Len(Requests) :
          Requests[i].name = "unknown_tool" /\ ResultOf(i).status = "error"

\* C8: across every step, the earlier project_plan is a prefix of the later one.
C8_ProjectPlanAppendOnly ==
    [][IsPrefix(state.project_plan, state'.project_plan)]_vars

C8_Witness ==
    /\ TurnDispatched
    /\ seed.project_plan # <<>>
    /\ state.project_plan = seed.project_plan
    /\ \E i \in 1..Len(Requests) : Requests[i].name = "search_wikipedia"

\* C9: project_description, project_research and final_report, when the seed
\* has them, keep the seed's values in every state of the run.
C9_AuxiliaryFieldsKept ==
    \A k \in {"project_description", "project_research", "final_report"} :
        seed[k] # Unset => state[k] = seed[k]

C9_Witness ==
    /\ pc = "returned"
    /\ nDispatch = 1
    /\ seed.project_description # Unset
    /\ seed.project_research # Unset
    /\ seed.final_report # Unset

\* C10: the tool messages of one turn stand in messages in the order of the
\* requests, whatever the order in which the invocations completed, and a
\* failed invocation's siblings are all there.
C10_RequestOrder ==
    /\ pc = "tools" =>
          \A i \in DOMAIN outputs :
              outputs[i] # Pending =>
                  outputs[i].tool_call_id = LastMessage(state).tool_calls[i].id
    /\ TurnDispatched =>
          /\ Len(state.messages) = RequestIndex + Len(Requests)
          /\ \A i \in 1..Len(Requests) :
                /\ ResultOf(i).type = "tool"
                /\ ResultOf(i).tool_call_id = Requests[i].id
                /\ ResultOf(i).name = Requests[i].name

C10_Witness ==
    /\ TurnDispatched
    /\ Len(Requests) = 3
    /\ lastDone = 2
    /\ ResultOf(2).status = "error"
    /\ ResultOf(1).status = "success"
    /\ ResultOf(3).status = "success"

C12_StrictAlternation ==
    /\ outputs # <<>> => pc = "tools"
    /\ pc = "tools" => nReasoning >= 1
    /\ pc = "research_agent" => nReasoning = nDispatch
    /\ pc = "tools" => nReasoning = nDispatch + (IF outputs = <<>> THEN 1 ELSE 0)
    /\ Terminal = "DONE" => nReasoning = nDispatch + 1
    /\ Terminal # "RAISED"

C12_Witness ==
    /\ pc = "returned"
    /\ nDispatch = 1
    /\ nReasoning = 2

\* C13: the LLM is invoked once per reasoning step and never during dispatch,
\* and a search capability is invoked with a query that the request carries.
C13_QueryFromRequest ==
    /\ \A e \in invoked : e.capability = "llm" => e.by = "research_agent"
    /\ Cardinality({e \in invoked : e.capability = "llm"}) = nReasoning
    /\ \A e \in invoked :
          e.capability \in {"search", "encyclopedia"} =>
              \E j \in 1..Len(ArgsFor(e.by).messages) : ArgsFor(e.by).messages[j] = e.query

\* C14: every invocation of search_wikipedia completes without an error and
\* returns the blocks of 0 to 2 articles.
C14_EncyclopediaCompletes ==
    \A j \in 1..Len(state.messages) :
        (state.messages[j].type = "tool" /\ state.messages[j].name = "search_wikipedia") =>
            /\ state.messages[j].status = "success"
            /\ \E docs \in ProviderResults(load_max_docs) :
                  state.messages[j].content =
                      Stringify(Ok("dict",
                          ArgsFor("search_wikipedia").messages
                          \o [i \in 1..Len(docs) |-> FormatWikipedia(docs[i])]))

\* C15: a web search that returns no document leaves no entry in messages for
\* its request; in general a request contributes one block per returned
\* document, in the provider's order, at most 3, and no error document.
C15_OneBlockPerDocument ==
    \A e \in invoked :
        (e.capability = "search" /\ ~e.failed /\ TurnDispatched) =>
            /\ e.results <= max_results
            /\ e.results = 0 =>
                  ~\E j \in 1..Len(state.messages) :
                      /\ state.messages[j].type = "tool"
                      /\ state.messages[j].tool_call_id = e.n
            /\ Len(Requests) = 1 =>
                  /\ Len(state.messages) = RequestIndex + e.results
                  /\ \A i \in 1..e.results :
                        /\ state.messages[RequestIndex + i].content = FormatWeb(RankedDocs[i])
                        /\ state.messages[RequestIndex + i].status # "error"

\* The block the design prescribes for a document with source label s and content c.
DocumentBlock(s, c) == "<Document href='" \o s \o "'/>\n" \o c \o "\n<Document>"

\* C16: the documents a search tool returns are serialized as the blocks
\* <Document href='s'/> newline c newline <Document>, the same for web search
\* and encyclopedia search.
C16_DocumentBlockFormat ==
    \A j \in 1..Len(state.messages) :
        (/\ state.messages[j].type = "tool"
         /\ state.messages[j].status = "success"
         /\ state.messages[j].name \in {"search_web", "search_wikipedia"}) =>
            \E docs \in ProviderResults(max_results) :
                state.messages[j].content =
                    Stringify(Ok("dict",
                        ArgsFor(state.messages[j].name).messages
                        \o [i \in 1..Len(docs) |->
                               DocumentBlock(docs[i].url, docs[i].content)]))

\* C17: an empty LLM response is a final answer with empty text: once it is
\* the reasoning output the run is done, with no further dispatch or
\* reasoning step, and the text returned is empty.
C17_EmptyResponseEndsRun ==
    (nReasoning >= 1 /\ LatestOutput = AIMessage("", <<>>)) =>
        /\ Terminal = "DONE"
        /\ pc = "returned" => returned.result[1].content = ""

\* C18: a reasoning step changes no channel but `result`, which then holds the
\* LLM's answer; messages is as before, and the conditional edge routes on
\* the last message as it was before the step.
C18_ReasoningLeavesMessages ==
    [][nReasoning' # nReasoning =>
          /\ state'.messages = state.messages
          /\ \A k \in DOMAIN state \ {"result"} : state'[k] = state[k]
          /\ \E r \in LLMResponses : state'.result = <<r>>
          /\ pc' \in {"tools", "__end__"}
          /\ pc' = "tools" <=>
                (LastMessage(state).type = "ai" /\ Len(LastMessage(state).tool_calls) > 0)]_vars

C18_Witness ==
    /\ nReasoning = 1
    /\ nDispatch = 0
    /\ pc = "__end__"
    /\ Kind(LatestOutput) = "tools"
    /\ state.messages = seed.messages
    /\ LastMessage(state).type = "human"

\* The number of documents the provider returned to tool call i of the turn.
ResultsOf(i) ==
    (CHOOSE e \in invoked : e.capability = "search" /\ e.n = i).results

SearchWebReturned(i) ==
    /\ i \in DOMAIN toolReturns
    /\ LastMessage(seed).tool_calls[i].name = "search_web"
    /\ toolReturns[i].kind = "dict"

====
